---- MODULE Spec2Model ----
(***************************************************************************)
(* pyboolnet: a Bayesian network over boolean variables.                   *)
(*                                                                         *)
(* The model follows boolnet/boolbeliefnet.py (BooleanBeliefNetwork),      *)
(* boolnet/network_tools.py (d-separation), boolnet/str_tools.py and       *)
(* boolnet/misc.py, and the older get_prob kept in boolnet/__init__.py.    *)
(*                                                                         *)
(* Probabilities are exact rationals.  Every number of a truth table is a  *)
(* numerator over the denominator Denom, so a product of n table values is *)
(* a numerator over Denom^n.                                               *)
(***************************************************************************)
EXTENDS Integers, Sequences, FiniteSets, TLC

VARIABLES g, keys, pc, call, ret

vars == <<g, keys, pc, call, ret>>

----------------------------------------------------------------------------
(* Bounds of the model.                                                    *)

\* The variable names a specification may use.
Names == {"A", "B", "C"}

\* The names in a fixed order, to enumerate tuples of distinct names.
NameSeq == <<"A", "B", "C">>

\* Entries in the data mapping given to the constructor.
MaxEntries == 3

\* Parents named in one "p(V|P1,P2)" key.
MaxParents == 2

\* Common denominator of the probabilities in the truth tables.
Denom == 3

\* Numerators of the probabilities written in the truth tables: of a root,
\* and of the rows of a variable with parents (first parent true; else last
\* parent true; the remaining rows have Denom - 1).
PVals == {0, 1}
TableShapes == {<<1, 0>>}

----------------------------------------------------------------------------
(* Python values and exceptions.                                           *)

\* An outcome of a call: a returned number num/den, a returned bool, or a
\* raised exception (err # "").
Returned(n, d) == [err |-> "", num |-> n, den |-> d, bool |-> FALSE]
ReturnedBool(b) == [err |-> "", num |-> 0, den |-> 1, bool |-> b]
Raised(e) == [err |-> e, num |-> 0, den |-> 1, bool |-> FALSE]
NoResult == [err |-> "", num |-> 0, den |-> 0, bool |-> FALSE]

\* A str object and a tuple object: "x in given_vars" compares objects, and a
\* str never equals a tuple.
PyStr(s) == [type |-> "str", v |-> s]
PyTuple(t) == [type |-> "tuple", v |-> t]
PyEq(a, b) == a.type = b.type /\ a.v = b.v
PyIn(x, t) == \E i \in DOMAIN t : PyEq(t[i], x)

Range(s) == {s[i] : i \in DOMAIN s}

RECURSIVE Pow(_, _)
Pow(b, n) == IF n = 0 THEN 1 ELSE b * Pow(b, n - 1)

----------------------------------------------------------------------------
(* str_tools.py                                                            *)

\* The strings of T and F of one length: the keys of a truth dict.
TFKeys(k) == [1..k -> {"T", "F"}]

\* str.lower on the characters a truth key is made of.
Lower(c) == IF c = "T" THEN "t" ELSE IF c = "F" THEN "f" ELSE c

\* The truth dicts a specification may give to a variable with k parents: a
\* bare number for a root, else a mapping from every key of k characters.
RawTable(k, p, q) ==
    [key \in TFKeys(k) |->
        IF key[1] = "T" THEN p ELSE IF key[k] = "T" THEN q ELSE Denom - 1]

RawTables(k) ==
    IF k = 0
        THEN {[isdict |-> FALSE, number |-> p, items |-> <<>>] : p \in PVals}
        ELSE {[isdict |-> TRUE, number |-> 0, items |-> RawTable(k, pq[1], pq[2])] :
                pq \in TableShapes}

\* parse_truth_dict: the table {True: p_true, False: p_false} behind the
\* returned lambda, keyed on tuples of booleans.
parse_truth_dict(d) ==
    IF d.isdict
        THEN LET rawkeys == DOMAIN d.items
                 conv(key) == [i \in DOMAIN key |-> Lower(key[i]) = "t"]
                 p_true == [t \in {conv(key) : key \in rawkeys} |->
                              d.items[CHOOSE key \in rawkeys : conv(key) = t]]
                 p_false == [t \in DOMAIN p_true |-> Denom - p_true[t]]
             IN  [b \in BOOLEAN |-> IF b THEN p_true ELSE p_false]
        ELSE LET p_true == [t \in {<<>>} |-> d.number]
                 p_false == [t \in {<<>>} |-> Denom - d.number]
             IN  [b \in BOOLEAN |-> IF b THEN p_true ELSE p_false]

\* parse_var_parents yields (var, parents), and the keys "p(V)" and
\* "p(V|P1,..)" of the data are modelled by that pair.  The parent lists name
\* distinct variables; a variable is its own parent only in the key "p(V|V)".
ParentLists(v) ==
    {<<v>>} \cup
    {ps \in UNION {[1..k -> Names \ {v}] : k \in 0..MaxParents} :
        \A i, j \in DOMAIN ps : i # j => ps[i] # ps[j]}

Keys == UNION {{<<v, ps>> : ps \in ParentLists(v)} : v \in Names}

----------------------------------------------------------------------------
(* networkx.DiGraph as the constructor uses it.                            *)

EmptyGraph == [nodes |-> <<>>, attr |-> <<>>, edges |-> {}]

NodeSet(G) == Range(G.nodes)

\* g.add_node(n, **attrs): a new node goes last; attributes are replaced.
add_node(G, n, attrs) ==
    [nodes |-> IF n \in NodeSet(G) THEN G.nodes ELSE Append(G.nodes, n),
     attr |-> [m \in (DOMAIN G.attr) \cup {n} |->
                  IF m = n THEN attrs ELSE G.attr[m]],
     edges |-> G.edges]

\* g.add_edge(u, v): missing endpoints are added without attributes.
add_edge(G, u, v) ==
    LET n1 == IF u \in NodeSet(G) THEN G.nodes ELSE Append(G.nodes, u)
        n2 == IF v \in Range(n1) THEN n1 ELSE Append(n1, v)
    IN  [nodes |-> n2, attr |-> G.attr, edges |-> G.edges \cup {<<u, v>>}]

RECURSIVE add_edges(_, _, _, _)
add_edges(G, parents, i, var) ==
    IF i > Len(parents) THEN G
    ELSE add_edges(add_edge(G, parents[i], var), parents, i + 1, var)

has_edge(G, u, v) == <<u, v>> \in G.edges

\* nx.is_directed_acyclic_graph: no node remains once the nodes without an
\* incoming edge from a remaining node are removed again and again.
RECURSIVE Unorderable(_, _)
Unorderable(G, S) ==
    LET free == {n \in S : ~ \E m \in S : has_edge(G, m, n)}
    IN  IF free = {} THEN S ELSE Unorderable(G, S \ free)

is_directed_acyclic_graph(G) == Unorderable(G, NodeSet(G)) = {}

----------------------------------------------------------------------------
(* BooleanBeliefNetwork.__init__                                           *)

NoCall == [op |-> "none", var_name |-> "", var_state |-> FALSE,
           states |-> <<>>, query_vars |-> <<>>, given_vars |-> <<>>,
           path |-> <<>>]

Init ==
    /\ g = EmptyGraph
    /\ keys = {}
    /\ pc = "loop"
    /\ call = NoCall
    /\ ret = NoResult

\* One pass of "for key, prob_dict in data.items()".
LoopBody(var, parents, prob_dict) ==
    /\ pc = "loop"
    /\ Cardinality(keys) < MaxEntries
    /\ <<var, parents>> \notin keys
    /\ LET prob_fn == parse_truth_dict(prob_dict)
           g1 == add_node(g, var, [parents |-> parents, init_probs |-> prob_fn])
       IN  g' = add_edges(g1, parents, 1, var)
    /\ keys' = keys \cup {<<var, parents>>}
    /\ UNCHANGED <<pc, call, ret>>

\* A constructor without the assert: every graph becomes a network.
InitDoneUnchecked ==
    /\ pc = "loop"
    /\ pc' = "ready"
    /\ UNCHANGED <<g, keys, call, ret>>

\* The assert after the loop, and self._g = g.
InitDone ==
    /\ pc = "loop"
    /\ pc' = IF is_directed_acyclic_graph(g) THEN "ready" ELSE "AssertionError"
    /\ UNCHANGED <<g, keys, call, ret>>

Construct ==
    \/ \E k \in Keys : \E d \in RawTables(Len(k[2])) : LoopBody(k[1], k[2], d)
    \/ InitDone

----------------------------------------------------------------------------
(* misc.py and the joint probability.                                      *)

\* Keyword arguments: a mapping from some names to states.
Assignments == UNION {[S -> BOOLEAN] : S \in SUBSET Names}

\* f(**a, **b): a name given twice is a TypeError.
KwClash(a, b) == (DOMAIN a) \cap (DOMAIN b) # {}
KwMerge(a, b) == [n \in (DOMAIN a) \cup (DOMAIN b) |->
                    IF n \in DOMAIN a THEN a[n] ELSE b[n]]

\* A lookup that takes the parents' states in the reverse of the stored order.
get_prob_simple_reversed(G, var_name, var_state, parent_states) ==
    IF var_name \notin DOMAIN G.attr THEN Raised("KeyError")
    ELSE LET parents == G.attr[var_name].parents
             k == Len(parents)
         IN  IF \E i \in DOMAIN parents : parents[i] \notin DOMAIN parent_states
                 THEN Raised("KeyError")
             ELSE Returned(G.attr[var_name].init_probs[var_state][
                               [i \in DOMAIN parents |-> parent_states[parents[k + 1 - i]]]],
                           Denom)

\* _get_prob_simple: the table value of var_state under the states of the
\* parents, in the order of the stored parent tuple.
get_prob_simple(G, var_name, var_state, parent_states) ==
    IF var_name \notin DOMAIN G.attr THEN Raised("KeyError")
    ELSE LET parents == G.attr[var_name].parents
         IN  IF \E i \in DOMAIN parents : parents[i] \notin DOMAIN parent_states
                 THEN Raised("KeyError")
             ELSE LET parent_state_tuple ==
                          [i \in DOMAIN parents |-> parent_states[parents[i]]]
                      table == G.attr[var_name].init_probs[var_state]
                  IN  IF parent_state_tuple \notin DOMAIN table
                          THEN Raised("KeyError")
                      ELSE Returned(table[parent_state_tuple], Denom)

\* prod over the generator of _complete_joint: ret = 1; ret *= number, for
\* the nodes in the graph's order.  The first exception ends the call.
RECURSIVE prod(_, _, _, _)
prod(G, var_states, i, acc) ==
    IF i > Len(G.nodes) THEN Returned(acc, Pow(Denom, Len(G.nodes)))
    ELSE LET var == G.nodes[i]
         IN  IF var \notin DOMAIN var_states THEN Raised("KeyError")
             ELSE LET p == get_prob_simple(G, var, var_states[var], var_states)
                  IN  IF p.err # "" THEN p
                      ELSE prod(G, var_states, i + 1, acc * p.num)

\* A product that looks up every name of the assignment, so that a name the
\* network does not have raises KeyError.
complete_joint_strict(G, var_states) ==
    IF ~ (DOMAIN var_states \subseteq NodeSet(G)) THEN Raised("KeyError")
    ELSE prod(G, var_states, 1, 1)

complete_joint(G, var_states) == prod(G, var_states, 1, 1)

\* An enumeration that only pairs the states up: all True, then all False.
product_zipped(k) ==
    IF k = 0 THEN << <<>> >>
    ELSE <<[i \in 1..k |-> TRUE], [i \in 1..k |-> FALSE]>>

\* itertools.product([True, False], repeat=k), in its order.
RECURSIVE product(_)
product(k) ==
    IF k = 0 THEN << <<>> >>
    ELSE LET rest == product(k - 1)
             n == Len(rest)
         IN  [i \in 1..(2 * n) |->
                 IF i <= n THEN <<TRUE>> \o rest[i] ELSE <<FALSE>> \o rest[i - n]]

\* [var for var in nodes if var not in var_states]
RECURSIVE Filter(_, _)
Filter(seq, S) ==
    IF seq = <<>> THEN <<>>
    ELSE (IF Head(seq) \in S THEN <<Head(seq)>> ELSE <<>>) \o Filter(Tail(seq), S)

\* The loop of _marginal_joint: total += _complete_joint(...).
RECURSIVE marginal_loop(_, _, _, _, _, _)
marginal_loop(G, var_states, marginal_vars, combos, i, total) ==
    IF i > Len(combos) THEN Returned(total, Pow(Denom, Len(G.nodes)))
    ELSE LET marginal_var_states ==
                 [n \in Range(marginal_vars) |->
                     combos[i][CHOOSE j \in DOMAIN marginal_vars : marginal_vars[j] = n]]
             c == IF KwClash(var_states, marginal_var_states)
                      THEN Raised("TypeError")
                      ELSE complete_joint(G, KwMerge(var_states, marginal_var_states))
         IN  IF c.err # "" THEN c
             ELSE marginal_loop(G, var_states, marginal_vars, combos, i + 1,
                                total + c.num)

marginal_joint(G, var_states) ==
    LET marginal_vars == Filter(G.nodes, NodeSet(G) \ DOMAIN var_states)
    IN  marginal_loop(G, var_states, marginal_vars,
                      product(Len(marginal_vars)), 1, 0)

\* BooleanBeliefNetwork.joint
joint(G, var_states) ==
    IF NodeSet(G) \subseteq DOMAIN var_states
        THEN complete_joint(G, var_states)
        ELSE marginal_joint(G, var_states)

\* The caller takes the outcome of its call; calls are synchronous, one at a
\* time.
Idle == pc = "ready" /\ call.op = "none"

TakeResult ==
    /\ pc = "ready"
    /\ call.op # "none"
    /\ call' = NoCall
    /\ ret' = NoResult
    /\ UNCHANGED <<g, keys, pc>>

\* A caller asks net.joint(**var_states).
Joint(var_states) ==
    /\ Idle
    /\ call' = [NoCall EXCEPT !.op = "joint", !.states = var_states]
    /\ ret' = joint(g, var_states)
    /\ UNCHANGED <<g, keys, pc>>

----------------------------------------------------------------------------
(* BooleanBeliefNetwork.get_prob (boolbeliefnet.py)                        *)

\* joint(**{var_name: state}, **known_states), as get_prob calls it.
joint_with(G, var_name, state, known_states) ==
    LET this == [n \in {var_name} |-> state]
    IN  IF KwClash(this, known_states) THEN Raised("TypeError")
        ELSE joint(G, KwMerge(this, known_states))

\* A get_prob whose second joint takes var_state again instead of its negation.
get_prob_same_state(G, var_name, var_state, known_states) ==
    LET p_this_state == joint_with(G, var_name, var_state, known_states)
        p_other_state == joint_with(G, var_name, var_state, known_states)
    IN  IF p_this_state.err # "" THEN p_this_state
        ELSE IF p_this_state.num + p_other_state.num = 0
            THEN Raised("ZeroDivisionError")
        ELSE Returned(p_this_state.num, p_this_state.num + p_other_state.num)

get_prob(G, var_name, var_state, known_states) ==
    LET p_this_state == joint_with(G, var_name, var_state, known_states)
        p_other_state == joint_with(G, var_name, ~ var_state, known_states)
    IN  IF p_this_state.err # "" THEN p_this_state
        ELSE IF p_other_state.err # "" THEN p_other_state
        ELSE IF p_this_state.num + p_other_state.num = 0
            THEN Raised("ZeroDivisionError")
        ELSE Returned(p_this_state.num, p_this_state.num + p_other_state.num)

\* A caller asks net.get_prob(var_name, var_state, **known_states).
GetProb(var_name, var_state, known_states) ==
    /\ Idle
    /\ call' = [NoCall EXCEPT !.op = "get_prob", !.var_name = var_name,
                              !.var_state = var_state, !.states = known_states]
    /\ ret' = get_prob(g, var_name, var_state, known_states)
    /\ UNCHANGED <<g, keys, pc>>

----------------------------------------------------------------------------
(* BooleanBeliefNetwork.get_prob of the package module (boolnet/__init__.py) *)

\* The first statement of the older get_prob: evidence that names var_name
\* answers the query, and the method returns there.  The calls modelled are
\* the calls with such evidence.
get_prob_pkg(G, var_name, var_state, known_states) ==
    IF known_states[var_name] = var_state THEN Returned(1, 1) ELSE Returned(0, 1)

GetProbPkg(var_name, var_state, known_states) ==
    /\ Idle
    /\ var_name \in DOMAIN known_states
    /\ call' = [NoCall EXCEPT !.op = "get_prob_pkg", !.var_name = var_name,
                              !.var_state = var_state, !.states = known_states]
    /\ ret' = get_prob_pkg(g, var_name, var_state, known_states)
    /\ UNCHANGED <<g, keys, pc>>

----------------------------------------------------------------------------
(* network_tools.py and the independence query.                            *)

\* nx.all_simple_paths(g.to_undirected(), s, t): the sequences of distinct
\* nodes from s to t whose neighbours are joined by an edge either way.
Adjacent(G, u, v) == has_edge(G, u, v) \/ has_edge(G, v, u)

all_simple_paths(G, s, t) ==
    {path \in UNION {[1..k -> NodeSet(G)] : k \in 2..Len(G.nodes)} :
        /\ path[1] = s
        /\ path[Len(path)] = t
        /\ \A i, j \in DOMAIN path : i # j => path[i] # path[j]
        /\ \A i \in 1..(Len(path) - 1) : Adjacent(G, path[i], path[i + 1])}

\* is_path_blocked without its third test of a given node, the chain read
\* from the far end of the path.
RECURSIVE is_path_blocked_forward(_, _, _, _)
is_path_blocked_forward(G, path, given_vars, i) ==
    IF i > Len(path) - 1 THEN FALSE
    ELSE LET node == path[i]
             before == path[i - 1]
             after == path[i + 1]
         IN  IF PyIn(PyStr(node), given_vars)
                 THEN IF has_edge(G, node, before) /\ has_edge(G, node, after)
                          THEN TRUE
                      ELSE IF has_edge(G, before, node) /\ has_edge(G, node, after)
                          THEN TRUE
                      ELSE is_path_blocked_forward(G, path, given_vars, i + 1)
             ELSE IF has_edge(G, before, node) /\ has_edge(G, after, node)
                 THEN TRUE
             ELSE is_path_blocked_forward(G, path, given_vars, i + 1)

\* is_path_blocked: the loop over path[1:-1], position i of the source being
\* i + 1 here.  given_vars is a tuple of Python objects.
RECURSIVE is_path_blocked(_, _, _, _)
is_path_blocked(G, path, given_vars, i) ==
    IF i > Len(path) - 1 THEN FALSE
    ELSE LET node == path[i]
             before == path[i - 1]
             after == path[i + 1]
         IN  IF PyIn(PyStr(node), given_vars)
                 THEN IF has_edge(G, node, before) /\ has_edge(G, node, after)
                          THEN TRUE
                      ELSE IF has_edge(G, before, node) /\ has_edge(G, node, after)
                          THEN TRUE
                      ELSE IF has_edge(G, after, node) /\ has_edge(G, node, before)
                          THEN TRUE
                      ELSE is_path_blocked(G, path, given_vars, i + 1)
             ELSE IF has_edge(G, before, node) /\ has_edge(G, after, node)
                 THEN TRUE
             ELSE is_path_blocked(G, path, given_vars, i + 1)

\* are_d_separated(g, query_var1, query_var2, *given_vars): given_vars is the
\* tuple of the positional arguments after the third.
are_d_separated(G, query_var1, query_var2, given_vars) ==
    IF query_var1 \notin NodeSet(G) \/ query_var2 \notin NodeSet(G)
        THEN Raised("NetworkXError")
    ELSE ReturnedBool(\A path \in all_simple_paths(G, query_var1, query_var2) :
                          is_path_blocked(G, path, given_vars, 2))

\* _are_pair_conditionally_independent(q1, q2, *given_vars) passes its tuple
\* of given variables as ONE positional argument.
PyStrs(names) == [i \in DOMAIN names |-> PyStr(names[i])]

are_pair_conditionally_independent(G, query_var1, query_var2, given_vars) ==
    are_d_separated(G, query_var1, query_var2, <<PyTuple(PyStrs(given_vars))>>)

\* itertools.combinations(query_vars, 2), in its order.
combinations2(seq) ==
    LET n == Len(seq)
        pairs == {<<i, j>> \in (1..n) \X (1..n) : i < j}
        rank(ij) == Cardinality({kl \in pairs :
                        kl[1] < ij[1] \/ (kl[1] = ij[1] /\ kl[2] <= ij[2])})
    IN  [r \in 1..Cardinality(pairs) |->
            LET ij == CHOOSE ij \in pairs : rank(ij) = r
            IN  <<seq[ij[1]], seq[ij[2]]>>]

\* The loop of are_conditionally_independent: "ret and f()" calls f only
\* while ret is true.
RECURSIVE independent_loop(_, _, _, _, _)
independent_loop(G, pairs, given_vars, i, r) ==
    IF i > Len(pairs) THEN ReturnedBool(r)
    ELSE IF ~ r THEN independent_loop(G, pairs, given_vars, i + 1, r)
    ELSE LET one == are_pair_conditionally_independent(
                        G, pairs[i][1], pairs[i][2], given_vars)
         IN  IF one.err # "" THEN one
             ELSE independent_loop(G, pairs, given_vars, i + 1, one.bool)

are_conditionally_independent(G, query_vars, given_vars) ==
    independent_loop(G, combinations2(query_vars), given_vars, 1, TRUE)

\* Tuples of distinct names: any order for the query, one order for the given
\* variables.
QueryTuples ==
    {q \in UNION {[1..k -> Names] : k \in 0..Cardinality(Names)} :
        \A i, j \in DOMAIN q : i # j => q[i] # q[j]}

GivenTuples == {Filter(NameSeq, S) : S \in SUBSET Names}

\* A caller asks net.are_conditionally_independent(query_vars, *given_vars).
AreConditionallyIndependent(query_vars, given_vars) ==
    /\ Idle
    /\ call' = [NoCall EXCEPT !.op = "are_conditionally_independent",
                              !.query_vars = query_vars,
                              !.given_vars = given_vars]
    /\ ret' = are_conditionally_independent(g, query_vars, given_vars)
    /\ UNCHANGED <<g, keys, pc>>

----------------------------------------------------------------------------
(* is_path_blocked called on its own.                                      *)

\* The function takes any graph: it is called here on the acyclic digraphs
\* over four nodes, a path of three with one node beside it among them.
WideNames == Names \cup {"D"}
WideNameSeq == Append(NameSeq, "D")

Dags ==
    {G \in {[nodes |-> WideNameSeq, attr |-> <<>>, edges |-> E] :
                E \in SUBSET {e \in WideNames \X WideNames : e[1] # e[2]}} :
        is_directed_acyclic_graph(G)}

InitPath ==
    /\ g \in Dags
    /\ keys = {}
    /\ pc = "ready"
    /\ call = NoCall
    /\ ret = NoResult

\* A simple path of the undirected graph, as nx.all_simple_paths yields
\* them: distinct nodes of the graph, neighbours joined by an edge either way.
IsSimplePath(G, path) ==
    /\ Range(path) \subseteq NodeSet(G)
    /\ \A i, j \in DOMAIN path : i # j => path[i] # path[j]
    /\ \A i \in 1..(Len(path) - 1) : Adjacent(G, path[i], path[i + 1])

PathTuples ==
    {path \in UNION {[1..k -> WideNames] : k \in 2..Cardinality(WideNames)} :
        \A i, j \in DOMAIN path : i # j => path[i] # path[j]}

WideGivenTuples == {Filter(WideNameSeq, S) : S \in SUBSET WideNames}

\* A caller asks is_path_blocked(g, path, given_vars) for a simple path of
\* the graph and a tuple of names.
IsPathBlocked(path, given_vars) ==
    /\ Idle
    /\ IsSimplePath(g, path)
    /\ call' = [NoCall EXCEPT !.op = "is_path_blocked",
                              !.path = path,
                              !.given_vars = given_vars]
    /\ ret' = ReturnedBool(is_path_blocked(g, path, PyStrs(given_vars), 2))
    /\ UNCHANGED <<g, keys, pc>>

----------------------------------------------------------------------------
(* Specifications.                                                         *)

\* Construction and the joint probability.
Next ==
    \/ Construct
    \/ \E a \in Assignments : Joint(a)
    \/ TakeResult

Spec == Init /\ [][Next]_vars

\* Construction and the conditional probability.
NextProb ==
    \/ Construct
    \/ \E v \in Names, b \in BOOLEAN, a \in Assignments : GetProb(v, b, a)
    \/ TakeResult

SpecProb == Init /\ [][NextProb]_vars

\* Construction and both get_prob methods of the repository.
NextBothProb ==
    \/ Construct
    \/ \E v \in Names, b \in BOOLEAN, a \in Assignments : GetProb(v, b, a)
    \/ \E v \in Names, b \in BOOLEAN, a \in Assignments : GetProbPkg(v, b, a)
    \/ TakeResult

SpecBothProb == Init /\ [][NextBothProb]_vars

\* Construction and the independence query.
NextIndep ==
    \/ Construct
    \/ \E q \in QueryTuples, gv \in GivenTuples : AreConditionallyIndependent(q, gv)
    \/ TakeResult

SpecIndep == Init /\ [][NextIndep]_vars

\* The path query on every acyclic digraph over four nodes.
NextPath ==
    \/ \E path \in PathTuples, gv \in WideGivenTuples : IsPathBlocked(path, gv)
    \/ TakeResult

SpecPath == InitPath /\ [][NextPath]_vars

----------------------------------------------------------------------------
(* What the properties below speak of.                                     *)

\* Every node of the network has a parent tuple and a table.
WellFormed(G) == NodeSet(G) \subseteq DOMAIN G.attr

\* The nodes reachable from n along one or more edges.
RECURSIVE ReachFrom(_, _)
ReachFrom(G, S) ==
    LET more == S \cup {e[2] : e \in {d \in G.edges : d[1] \in S}}
    IN  IF more = S THEN S ELSE ReachFrom(G, more)

HasCycle(G) ==
    \E e \in G.edges : e[1] \in ReachFrom(G, {e[2]})

\* d-separation as the specification words it.
Collider(G, path, i) ==
    has_edge(G, path[i - 1], path[i]) /\ has_edge(G, path[i + 1], path[i])

Blocks(G, path, i, given) ==
    \/ path[i] \in given /\ ~ Collider(G, path, i)
    \/ path[i] \notin given /\ Collider(G, path, i)

SkeletonPaths(G, x, y) ==
    {path \in UNION {[1..k -> NodeSet(G)] : k \in 2..Cardinality(NodeSet(G))} :
        /\ path[1] = x /\ path[Len(path)] = y
        /\ \A i, j \in DOMAIN path : i # j => path[i] # path[j]
        /\ \A i \in 1..(Len(path) - 1) :
              <<path[i], path[i + 1]>> \in G.edges \/ <<path[i + 1], path[i]>> \in G.edges}

DSeparated(G, x, y, given) ==
    \A path \in SkeletonPaths(G, x, y) :
        \E i \in 2..(Len(path) - 1) : Blocks(G, path, i, given)

AllPairsDSeparated(G, query_vars, given) ==
    \A i, j \in DOMAIN query_vars :
        i < j => DSeparated(G, query_vars[i], query_vars[j], given)

\* The network is exactly a -> m -> b, b -> m -> a or a <- m -> b.
ChainOrFork(G, a, m, b) ==
    /\ NodeSet(G) = {a, m, b} /\ Cardinality({a, m, b}) = 3
    /\ \/ G.edges = {<<a, m>>, <<m, b>>}
       \/ G.edges = {<<b, m>>, <<m, a>>}
       \/ G.edges = {<<m, a>>, <<m, b>>}

\* The network is exactly a -> m <- b.
ColliderNet(G, a, m, b) ==
    /\ NodeSet(G) = {a, m, b} /\ Cardinality({a, m, b}) = 3
    /\ G.edges = {<<a, m>>, <<b, m>>}

IndepCall == pc = "ready" /\ call.op = "are_conditionally_independent"
JointCall == pc = "ready" /\ call.op = "joint"

\* The product of the table values of a set of nodes under an assignment.
RECURSIVE TableProduct(_, _, _)
TableProduct(G, S, a) ==
    IF S = {} THEN 1
    ELSE LET v == CHOOSE n \in S : TRUE
             ps == G.attr[v].parents
         IN  G.attr[v].init_probs[a[v]][[i \in DOMAIN ps |-> a[ps[i]]]]
               * TableProduct(G, S \ {v}, a)

Extend(a, m, b) == [n \in (DOMAIN a) \cup {m} |-> IF n = m THEN b ELSE a[n]]
Restrict(a, S) == [n \in (DOMAIN a) \cap S |-> a[n]]

----------------------------------------------------------------------------
(* C1.  The independence query returns true exactly when every pair of      *)
(* distinct query variables is d-separated by the given variables.          *)
C1_IndependentIffDSeparated ==
    (IndepCall /\ ret.err = "") =>
        (ret.bool = AllPairsDSeparated(g, call.query_vars, Range(call.given_vars)))

(* C2.  The joint of a partial assignment of network variables is the sum   *)
(* of the joints of the assignment extended by m = True and by m = False,   *)
(* for every unassigned network variable m; on a network with a node that   *)
(* has no table all three calls raise KeyError.                             *)
C2_MarginalisationConsistent ==
    (JointCall /\ DOMAIN call.states \subseteq NodeSet(g)) =>
        \A m \in NodeSet(g) \ DOMAIN call.states :
            LET t == joint(g, Extend(call.states, m, TRUE))
                f == joint(g, Extend(call.states, m, FALSE))
            IN  IF WellFormed(g)
                    THEN /\ ret.err = "" /\ t.err = "" /\ f.err = ""
                         /\ ret.den = t.den /\ ret.den = f.den
                         /\ ret.num = t.num + f.num
                    ELSE /\ ret.err = "KeyError"
                         /\ t.err = "KeyError" /\ f.err = "KeyError"

C2_Witness ==
    /\ JointCall /\ WellFormed(g) /\ ret.err = "" /\ ret.num > 0
    /\ Cardinality(NodeSet(g)) = 3
    /\ Cardinality(DOMAIN call.states) = 1
    /\ DOMAIN call.states \subseteq NodeSet(g)
    /\ g.edges # {}

(* C4.  The joint of an assignment that covers every network variable is    *)
(* the product over all nodes of the node's table value for its state and   *)
(* its parents' states in the stored parent order; where a node has no      *)
(* table there is no such product, and the call raises KeyError.            *)
C4_CompleteJointIsProduct ==
    (JointCall /\ NodeSet(g) \subseteq DOMAIN call.states) =>
        IF WellFormed(g)
            THEN /\ ret.err = ""
                 /\ ret.num = TableProduct(g, NodeSet(g), call.states)
                 /\ ret.den = Pow(Denom, Cardinality(NodeSet(g)))
            ELSE ret.err = "KeyError"

C4_Witness ==
    /\ JointCall /\ WellFormed(g) /\ ret.err = "" /\ ret.num > 0
    /\ NodeSet(g) = Names /\ DOMAIN call.states = Names
    /\ \E v \in Names : Len(g.attr[v].parents) = 2

(* C7.  Construction succeeds only on an acyclic graph: a directed cycle,   *)
(* a self-parent included, ends it with an error and no network answers a   *)
(* call.                                                                    *)
C7_CyclicSpecificationFails ==
    /\ pc = "ready" => ~ HasCycle(g)
    /\ pc = "AssertionError" => (HasCycle(g) /\ call.op = "none")

C7_Witness ==
    /\ pc = "AssertionError"
    /\ \E e \in g.edges : e[1] # e[2] /\ e[1] \in ReachFrom(g, {e[2]})

(* C8.  No network is built that has a node without parent tuple and table: *)
(* a parent that no entry defines fails the construction.                   *)
C8_UnknownParentFails ==
    pc = "ready" => WellFormed(g)

(* C9.  joint fails when its assignment names a variable that is not a node *)
(* of the network.                                                          *)
C9_UnknownVariableFails ==
    (JointCall /\ ~ (DOMAIN call.states \subseteq NodeSet(g))) => ret.err # ""

(* C9 as amended.  joint ignores the names that are not nodes of the        *)
(* network: the outcome is that of the assignment restricted to the         *)
(* network's variables, a probability when every node has a table.          *)
C9_UnknownVariableIgnored ==
    (JointCall /\ ~ (DOMAIN call.states \subseteq NodeSet(g))) =>
        /\ ret = joint(g, Restrict(call.states, NodeSet(g)))
        /\ WellFormed(g) => ret.err = ""

C9_Witness ==
    /\ JointCall /\ WellFormed(g) /\ ret.err = "" /\ ret.num > 0
    /\ Cardinality(NodeSet(g)) = 2
    /\ DOMAIN call.states = Names
    /\ g.edges # {}

(* C3.  With evidence that does not assign v and whose two joints do not    *)
(* sum to zero, get_prob returns joint(v = state, evidence) over the sum of *)
(* the two joints, and its answers for the two states of v add up to 1.     *)
C3_ConditionalsSumToOne ==
    (pc = "ready" /\ call.op = "get_prob" /\ call.var_name \notin DOMAIN call.states) =>
        LET yes == joint(g, Extend(call.states, call.var_name, TRUE))
            no == joint(g, Extend(call.states, call.var_name, FALSE))
            this == IF call.var_state THEN yes ELSE no
            other == get_prob(g, call.var_name, ~ call.var_state, call.states)
        IN  (yes.err = "" /\ no.err = "" /\ yes.num + no.num # 0) =>
                /\ ret.err = "" /\ other.err = ""
                /\ ret.num * (yes.num + no.num) = this.num * ret.den
                /\ ret.num * other.den + other.num * ret.den = ret.den * other.den

C3_Witness ==
    /\ pc = "ready" /\ call.op = "get_prob" /\ ret.err = ""
    /\ call.var_name \in NodeSet(g) \ DOMAIN call.states
    /\ DOMAIN call.states # {} /\ DOMAIN call.states \subseteq NodeSet(g)
    /\ \E n \in DOMAIN call.states : has_edge(g, call.var_name, n)
    /\ 0 < ret.num /\ ret.num < ret.den /\ 2 * ret.num # ret.den

(* C5.  On a network that is exactly a chain or a fork over three nodes,    *)
(* the two end variables are not independent given nothing and are          *)
(* independent given the middle variable.                                   *)
C5_MiddleOfChainOrForkBlocks ==
    \A a, m, b \in Names :
        (/\ IndepCall
         /\ ChainOrFork(g, a, m, b)
         /\ call.query_vars \in {<<a, b>>, <<b, a>>}) =>
            /\ call.given_vars = <<>> => ret = ReturnedBool(FALSE)
            /\ call.given_vars = <<m>> => ret = ReturnedBool(TRUE)

(* C6.  On the collider network a -> m <- b the two parents are independent *)
(* given nothing and not independent given m.                               *)
C6_ColliderUnblockedByMiddle ==
    \A a, m, b \in Names :
        (/\ IndepCall
         /\ ColliderNet(g, a, m, b)
         /\ call.query_vars \in {<<a, b>>, <<b, a>>}) =>
            /\ call.given_vars = <<>> => ret = ReturnedBool(TRUE)
            /\ call.given_vars = <<m>> => ret = ReturnedBool(FALSE)

(* C10.  get_prob fails whenever its evidence assigns the query variable,   *)
(* whether or not the two states agree.                                     *)
C10_EvidenceOnQueryVariableFails ==
    (/\ pc = "ready"
     /\ call.op \in {"get_prob", "get_prob_pkg"}
     /\ call.var_name \in DOMAIN call.states) => ret.err # ""

(* C11.  On a network (a DAG), for a simple path of the undirected graph    *)
(* and a flat tuple of given names, is_path_blocked returns true exactly    *)
(* when some inner node of the path is given and not a collider of the      *)
(* path, or is a collider of the path and not given; the descendants of a   *)
(* collider play no part.                                                   *)
C11_PathBlockedIffSomeNodeBlocks ==
    (pc = "ready" /\ call.op = "is_path_blocked") =>
        (ret.err = "" /\
         ret.bool = \E i \in 2..(Len(call.path) - 1) :
                        Blocks(g, call.path, i, Range(call.given_vars)))

\* A path a -> m <- b whose collider m is not given while a descendant of m
\* is, reported blocked.
C11_Witness ==
    /\ pc = "ready" /\ call.op = "is_path_blocked"
    /\ Len(call.path) = 3
    /\ Collider(g, call.path, 2)
    /\ call.path[2] \notin Range(call.given_vars)
    /\ \E d \in ReachFrom(g, {call.path[2]}) \ {call.path[2]} :
          d \in Range(call.given_vars)
    /\ ret.bool

\* Every name that an entry gives as a parent has an entry of its own.
ParentsDefined == \A k \in keys : Range(k[2]) \subseteq {j[1] : j \in keys}

Predecessors(G, n) == {m \in NodeSet(G) : has_edge(G, m, n)}

(* C12.  After the construction from a specification that is accepted      *)
(* (acyclic, every parent defined), two entries for one variable included,  *)
(* every node has a stored parent tuple and table, and the nodes with an    *)
(* edge into it are exactly the names of its stored parent tuple.           *)
C12_ParentsMatchPredecessors ==
    (pc = "ready" /\ ParentsDefined) =>
        \A n \in NodeSet(g) :
            /\ n \in DOMAIN g.attr
            /\ Predecessors(g, n) = Range(g.attr[n].parents)

====
